---- MODULE Spec2Model ----
(***************************************************************************)
(* dh-config: a layered configuration loader built on nconf.               *)
(*                                                                         *)
(* The model follows the latest revision of the module                     *)
(* (src/unnamed/part_002).  A JavaScript string is a sequence of atoms     *)
(* (<<"serverSettings", ".", "port">> is 'serverSettings.port'), so that   *)
(* split/join, path building and option parsing are computed rather than  *)
(* assumed.  A JavaScript value is a tagged record.  The nconf provider is *)
(* the list of its stores in the order of Object.keys(stores).             *)
(***************************************************************************)
EXTENDS Integers, Sequences, FiniteSets, TLC

VARIABLES
    instance,    \* _instance and the fields of the ServerConfig object
    firstCall,   \* arguments of the first call of the exported factory
    stores,      \* nconf.stores, in the order get() scans them
    procEnv,     \* process.env
    procArgv,    \* process.argv after [node, script]
    fs,          \* the files that exist, with their parsed JSON
    last,        \* the most recent call: what it was and how it ended
    kRaw,        \* cleanKey: the key argument
    kDelim,      \* cleanKey: the delimiter argument
    kOut         \* cleanKey: the value returned

vars == <<instance, firstCall, stores, procEnv, procArgv, fs, last, kRaw, kDelim, kOut>>

sessionVars == <<instance, firstCall, stores, procEnv, procArgv, fs, last>>

keyVars == <<kRaw, kDelim, kOut>>

-----------------------------------------------------------------------------
(* JavaScript values *)

Undef == [t |-> "undefined"]

Null == [t |-> "null"]

Str(s) == [t |-> "string", s |-> s]

Num(n) == [t |-> "number", n |-> n]

Arr(a) == [t |-> "array", a |-> a]

Obj(m) == [t |-> "object", m |-> m]

Logger(id) == [t |-> "logger", id |-> id]

IsString(v) == v.t = "string"

IsObject(v) == v.t = "object"

\* lodash _.isEmpty: true of undefined, null, numbers, '' and empty collections
IsEmpty(v) ==
    CASE v.t = "undefined" -> TRUE
      [] v.t = "null"      -> TRUE
      [] v.t = "number"    -> TRUE
      [] v.t = "string"    -> v.s = <<>>
      [] v.t = "array"     -> v.a = <<>>
      [] v.t = "object"    -> DOMAIN v.m = {}
      [] OTHER             -> FALSE

\* a one-word string
W(a) == <<a>>

EmptyMap == [k \in {} |-> Undef]

-----------------------------------------------------------------------------
(* String helpers: String.prototype.split, Array.prototype.join, includes *)

\* the positions where d occurs in s
Occurrences(s, d) ==
    {i \in 1..(Len(s) - Len(d) + 1) : SubSeq(s, i, i + Len(d) - 1) = d}

Includes(s, d) == d = <<>> \/ Occurrences(s, d) # {}

Min(S) == CHOOSE x \in S : \A y \in S : x <= y

RECURSIVE Split(_, _)
Split(s, d) ==
    IF Occurrences(s, d) = {}
    THEN <<s>>
    ELSE LET i == Min(Occurrences(s, d))
         IN  <<SubSeq(s, 1, i - 1)>> \o Split(SubSeq(s, i + Len(d), Len(s)), d)

RECURSIVE Join(_, _)
Join(parts, sep) ==
    IF Len(parts) = 0 THEN <<>>
    ELSE IF Len(parts) = 1 THEN parts[1]
    ELSE parts[1] \o sep \o Join(Tail(parts), sep)

getConfigFileName(configName) == configName \o W(".json")

\* the revision of cleanKey kept in src/index.js: no else branch
cleanKeyNoElse(key, delimiter) ==
    IF Includes(key, delimiter)
    THEN Str(Join(Split(key, delimiter), W(":")))
    ELSE Undef

cleanKey(key, delimiter) ==
    IF Includes(key, delimiter)
    THEN Str(Join(Split(key, delimiter), W(":")))
    ELSE Str(key)

-----------------------------------------------------------------------------
(* The process and the filesystem *)

NoLog == <<>>

ConfigDir == W("/cfg")

OtherDir == W("/other")

Directories == {ConfigDir, OtherDir}

\* process.argv: the executable, the script, then the user's arguments
ProcessArgv == <<W("node"), W("server.js")>> \o procArgv

\* path.join of two non-empty segments; an empty first segment is dropped
PathJoin(a, b) == IF a = <<>> THEN b ELSE a \o W("/") \o b

\* fs.existsSync: false for anything that is not the path of a file or directory
ExistsSync(p) == IsString(p) /\ (p.s \in DOMAIN fs \/ p.s \in Directories)

\* an option token is --key=value; anything else is a positional argument
IsOption(tok) == Len(tok) = 4 /\ tok[1] = "--" /\ tok[3] = "="

-----------------------------------------------------------------------------
(* nconf: stores, add, get *)

StoreIndex(ss, name) == {i \in 1..Len(ss) : ss[i].name = name}

\* Provider.add, as if a name registered again were moved behind the others
AddStoreMovedLast(ss, name, type, tree) ==
    LET IsOther(st) == st.name # name
    IN  Append(SelectSeq(ss, IsOther), [name |-> name, type |-> type, store |-> tree])

\* Provider.add: this.stores[name] = store; an existing name keeps its place
AddStore(ss, name, type, tree) ==
    LET st == [name |-> name, type |-> type, store |-> tree]
    IN  IF StoreIndex(ss, name) = {}
        THEN Append(ss, st)
        ELSE [ss EXCEPT ![CHOOSE i \in StoreIndex(ss, name) : TRUE] = st]

\* the argv store: the options of the command line
ArgvTree ==
    LET opts == {i \in 1..Len(procArgv) : IsOption(procArgv[i])}
        keys == {W(procArgv[i][2]) : i \in opts}
    IN  [k \in keys |->
            LET i == CHOOSE j \in opts :
                        /\ W(procArgv[j][2]) = k
                        /\ \A h \in opts : W(procArgv[h][2]) = k => h <= j
            IN  Str(W(procArgv[i][4]))]

\* the env store: a copy of process.env
EnvTree == [k \in DOMAIN procEnv |-> Str(procEnv[k])]

\* nconf.argv().env()
ArgvEnv(ss) ==
    AddStore(AddStore(ss, W("argv"), "argv", ArgvTree), W("env"), "env", EnvTree)

\* nconf.file(name, path) with a path that is a string: the parsed file
FileStore(ss, name, path) ==
    AddStore(ss, name, "file", IF path \in DOMAIN fs THEN fs[path] ELSE EmptyMap)

\* nconf.overrides(obj): a literal store holding obj and the type option
Overrides(ss, configName) ==
    AddStore(ss, W("overrides"), "literal",
             (W("environmentName") :> configName) @@ (W("type") :> Str(W("literal"))))

\* Memory.get: walk the ':'-separated path from the root of the store
RECURSIVE Walk(_, _)
Walk(target, path) ==
    IF path = <<>> THEN target
    ELSE IF IsObject(target) /\ Head(path) \in DOMAIN target.m
         THEN Walk(target.m[Head(path)], Tail(path))
         ELSE Undef

MemoryGet(tree, key) == Walk(Obj(tree), Split(key, W(":")))

\* Memory.merge of hi over lo: mappings merge key by key, anything else replaces
RECURSIVE MergeTwo(_, _)
MergeTwo(lo, hi) ==
    [k \in DOMAIN lo \cup DOMAIN hi |->
        IF k \notin DOMAIN hi THEN lo[k]
        ELSE IF k \notin DOMAIN lo THEN hi[k]
        ELSE IF IsObject(lo[k]) /\ IsObject(hi[k])
             THEN Obj(MergeTwo(lo[k].m, hi[k].m))
             ELSE hi[k]]

\* common.merge of the mappings found, the first found applied last
RECURSIVE MergeAll(_)
MergeAll(objs) ==
    IF Len(objs) = 1 THEN objs[1].m
    ELSE MergeTwo(MergeAll(Tail(objs)), objs[1].m)

\* Provider.get: the first defined scalar ends the scan; mappings found on the
\* way are collected and, if there are any, their merge is the answer
RECURSIVE Scan(_, _, _, _)
Scan(ss, key, i, mergeObjs) ==
    IF i > Len(ss)
    THEN IF mergeObjs = <<>> THEN Undef ELSE Obj(MergeAll(mergeObjs))
    ELSE LET r == MemoryGet(ss[i].store, key)
         IN  IF IsObject(r) THEN Scan(ss, key, i + 1, Append(mergeObjs, r))
             ELSE IF r = Undef THEN Scan(ss, key, i + 1, mergeObjs)
             ELSE IF mergeObjs = <<>> THEN r ELSE Obj(MergeAll(mergeObjs))

NconfGet(ss, key) == Scan(ss, key, 1, <<>>)

-----------------------------------------------------------------------------
(* The ServerConfig object *)

NoInstance ==
    [created |-> FALSE, configDirectory |-> Undef, delimiter |-> <<>>,
     nconf |-> FALSE, logger |-> Undef]

NoCall == [configJsonDirectory |-> Undef, logger |-> Undef]

\* this.info / this.warn / this.error: to the logger when one is set
Emit(self, level) ==
    [level |-> level, to |-> IF self.logger # Undef THEN "logger" ELSE "console"]

\* what a call did: whether it threw, the stores it left, what it returned,
\* the environment name it resolved, and the lines it logged
Outcome(threw, ss, ret, configName, log) ==
    [threw |-> threw, stores |-> ss, ret |-> ret, configName |-> configName, log |-> log]

\* new ServerConfig(configJsonDirectory, logger), as from line 64 on the initial
\* nconf.argv().env() were left out
ServerConfigNoArgvEnv(configJsonDirectory, logger) ==
    LET self0 == [created |-> TRUE, configDirectory |-> configJsonDirectory,
                  delimiter |-> W("."), nconf |-> FALSE, logger |-> Undef]
    IN  IF \/ configJsonDirectory = Undef
           \/ IsEmpty(configJsonDirectory)
           \/ ~ExistsSync(configJsonDirectory)
        THEN [self |-> self0, stores |-> stores, log |-> <<Emit(self0, "error")>>]
        ELSE [self |-> [self0 EXCEPT !.nconf = TRUE,
                                     !.logger = IF logger # Undef THEN logger ELSE Undef],
              stores |-> stores, log |-> NoLog]

\* new ServerConfig(configJsonDirectory, logger)
ServerConfig(configJsonDirectory, logger) ==
    LET self0 == [created |-> TRUE, configDirectory |-> configJsonDirectory,
                  delimiter |-> W("."), nconf |-> FALSE, logger |-> Undef]
    IN  IF \/ configJsonDirectory = Undef
           \/ IsEmpty(configJsonDirectory)
           \/ ~ExistsSync(configJsonDirectory)
        THEN [self |-> self0, stores |-> stores, log |-> <<Emit(self0, "error")>>]
        ELSE [self |-> [self0 EXCEPT !.nconf = TRUE,
                                     !.logger = IF logger # Undef THEN logger ELSE Undef],
              stores |-> ArgvEnv(stores), log |-> NoLog]

\* getConfigFilePath(configName): the path, or undefined with an error logged;
\* path.join throws on a directory that is not a string
getConfigFilePath(self, configName) ==
    IF ~IsString(self.configDirectory)
    THEN [threw |-> TRUE, filePath |-> Undef, log |-> NoLog]
    ELSE LET tempPath == Str(PathJoin(self.configDirectory.s, getConfigFileName(configName)))
         IN  IF ExistsSync(tempPath)
             THEN [threw |-> FALSE, filePath |-> tempPath, log |-> <<Emit(self, "info")>>]
             ELSE [threw |-> FALSE, filePath |-> Undef, log |-> <<Emit(self, "error")>>]

\* the name setEnvironmentName resolves (lines 78-100)
setEnvironmentName_configName(self, defaultConfig) ==
    IF W("NODE_ENV") \in DOMAIN procEnv /\ procEnv[W("NODE_ENV")] # <<>>
    THEN [configName |-> Str(procEnv[W("NODE_ENV")]), log |-> NoLog]
    ELSE IF Len(ProcessArgv) > 2
         THEN [configName |-> Str(ProcessArgv[Len(ProcessArgv)]), log |-> <<Emit(self, "info")>>]
         ELSE [configName |-> defaultConfig, log |-> <<Emit(self, "info")>>]

\* setEnvironmentName(defaultConfig)
setEnvironmentName(self, defaultConfig) ==
    LET r == setEnvironmentName_configName(self, defaultConfig)
    IN  IF ~self.nconf
        THEN Outcome(TRUE, stores, Undef, r.configName, r.log)
        ELSE Outcome(FALSE, Overrides(stores, r.configName), Undef, r.configName, r.log)

\* loadEnvironmentVariables()
loadEnvironmentVariables(self) ==
    IF ~self.nconf
    THEN Outcome(TRUE, stores, Undef, Undef, NoLog)
    ELSE Outcome(FALSE, ArgvEnv(stores), Undef, Undef, NoLog)

\* loadConfig(configName) as in the earlier revision, which did not read argv
\* and env again after the file
loadConfigNoReload(self, configName) ==
    LET p == getConfigFilePath(self, configName)
    IN  IF p.threw \/ ~self.nconf \/ ~IsString(p.filePath)
        THEN Outcome(TRUE, stores, Undef, Undef, p.log)
        ELSE Outcome(FALSE, FileStore(stores, configName, p.filePath.s),
                     Undef, Undef, p.log)

\* loadConfig(configName): nconf.file(name, undefined) throws a TypeError
loadConfig(self, configName) ==
    LET p == getConfigFilePath(self, configName)
    IN  IF p.threw \/ ~self.nconf \/ ~IsString(p.filePath)
        THEN Outcome(TRUE, stores, Undef, Undef, p.log)
        ELSE Outcome(FALSE, ArgvEnv(FileStore(stores, configName, p.filePath.s)),
                     Undef, Undef, p.log)

\* loadConfigWithPath(configName, filePath)
loadConfigWithPath(self, configName, filePath) ==
    IF ExistsSync(filePath)
    THEN IF ~self.nconf
         THEN Outcome(TRUE, stores, Undef, Undef, <<Emit(self, "info")>>)
         ELSE Outcome(FALSE, ArgvEnv(FileStore(stores, configName.s, filePath.s)),
                      Undef, Undef, <<Emit(self, "info")>>)
    ELSE Outcome(FALSE, stores, Undef, Undef, <<Emit(self, "error")>>)

\* the name loadEnvironmentConfig resolves (lines 195-217)
loadEnvironmentConfig_configName(self, defaultConfig) ==
    IF W("NODE_ENV") \in DOMAIN procEnv /\ procEnv[W("NODE_ENV")] # <<>>
    THEN [configName |-> Str(procEnv[W("NODE_ENV")]), log |-> NoLog]
    ELSE IF Len(ProcessArgv) > 2
         THEN [configName |-> Str(ProcessArgv[Len(ProcessArgv)]), log |-> <<Emit(self, "info")>>]
         ELSE [configName |-> defaultConfig, log |-> <<Emit(self, "info")>>]

\* loadEnvironmentConfig(defaultConfig)
loadEnvironmentConfig(self, defaultConfig) ==
    LET r == loadEnvironmentConfig_configName(self, defaultConfig)
        p == getConfigFilePath(self, r.configName.s)
        log == r.log \o p.log
    IN  IF p.threw \/ ~self.nconf
        THEN Outcome(TRUE, stores, Undef, r.configName, log)
        ELSE LET loaded == IF p.filePath # Undef
                           THEN FileStore(stores, r.configName.s, p.filePath.s)
                           ELSE stores
             IN  Outcome(FALSE, ArgvEnv(Overrides(loaded, r.configName)),
                         Undef, r.configName, log)

\* setDelimiter(delimiter), as if the _.isEmpty test were left out
setDelimiterNoEmptyTest(self, delimiter) ==
    IF delimiter = Undef \/ delimiter = Null \/ ~IsString(delimiter)
    THEN [self |-> self, log |-> <<Emit(self, "error")>>]
    ELSE [self |-> [self EXCEPT !.delimiter = delimiter.s], log |-> NoLog]

\* setDelimiter(delimiter)
setDelimiter(self, delimiter) ==
    IF delimiter = Undef \/ delimiter = Null \/ IsEmpty(delimiter) \/ ~IsString(delimiter)
    THEN [self |-> self, log |-> <<Emit(self, "error")>>]
    ELSE [self |-> [self EXCEPT !.delimiter = delimiter.s], log |-> NoLog]

\* currentValue[key] for i >= 1: a TypeError on undefined and null, undefined
\* on a scalar or an absent key
RECURSIVE Traverse(_, _, _)
Traverse(self, currentValue, keys) ==
    IF keys = <<>> THEN [threw |-> FALSE, ret |-> currentValue]
    ELSE IF currentValue = Undef \/ currentValue = Null
         THEN [threw |-> TRUE, ret |-> Undef]
         ELSE LET k == cleanKey(Head(keys), self.delimiter)
              IN  Traverse(self,
                           IF IsObject(currentValue) /\ k.s \in DOMAIN currentValue.m
                           THEN currentValue.m[k.s] ELSE Undef,
                           Tail(keys))

\* get(...keys), as if the loop of lines 268-272 were left out
getFirstKeyOnly(self, ss, keys) ==
    IF keys = <<>> THEN [threw |-> FALSE, ret |-> Null]
    ELSE IF ~self.nconf THEN [threw |-> TRUE, ret |-> Undef]
    ELSE [threw |-> FALSE, ret |-> NconfGet(ss, cleanKey(keys[1], self.delimiter).s)]

\* get(...keys)
get(self, ss, keys) ==
    IF keys = <<>> THEN [threw |-> FALSE, ret |-> Null]
    ELSE IF ~self.nconf THEN [threw |-> TRUE, ret |-> Undef]
    ELSE Traverse(self, NconfGet(ss, cleanKey(keys[1], self.delimiter).s), Tail(keys))

\* getEnvironmentName()
getEnvironmentName(self, ss) ==
    IF ~self.nconf THEN [threw |-> TRUE, ret |-> Undef]
    ELSE [threw |-> FALSE, ret |-> NconfGet(ss, W("environmentName"))]

-----------------------------------------------------------------------------------------------------------------------------------------------------
(* Bounds and the inputs the calls are given *)

MaxArgs == 2

MaxKeyLen == 3

MaxDelimLen == 2

RECURSIVE SeqsUpTo(_, _)
SeqsUpTo(S, n) ==
    IF n = 0 THEN {<<>>}
    ELSE LET shorter == SeqsUpTo(S, n - 1)
         IN  shorter \cup {Append(q, x) : q \in shorter, x \in S}

AllJsonPath == PathJoin(ConfigDir, getConfigFileName(W("all")))

LocalJsonPath == PathJoin(ConfigDir, getConfigFileName(W("local")))

AllJson ==
    (W("name") :> Str(W("base")))
    @@ (W("serverSettings") :> Obj(W("port") :> Num(3000)))
    @@ (W("environmentName") :> Str(W("fromFile")))
    @@ (W("debug") :> Obj(W("level") :> Num(1)))

LocalJson ==
    (W("name") :> Str(W("local")))
    @@ (W("serverSettings") :> Obj(W("host") :> Str(W("h"))))
    @@ (W("debug") :> Str(W("on")))

FsWithLocal == (AllJsonPath :> AllJson) @@ (LocalJsonPath :> LocalJson)

FsWithoutLocal == (AllJsonPath :> AllJson)

\* a config file named as nconf names the store nconf.overrides() adds
OverridesJsonPath == PathJoin(ConfigDir, getConfigFileName(W("overrides")))

OverridesJson == (W("region") :> Str(W("eu")))

FsWithOverrides == FsWithLocal @@ (OverridesJsonPath :> OverridesJson)

\* a positional argument and an option
ArgTokens == {W("local"), <<"--", "name", "=", "cli">>}

EnvChoices ==
    {ne @@ nm : ne \in {EmptyMap, W("NODE_ENV") :> <<>>, W("NODE_ENV") :> W("prod")},
                nm \in {EmptyMap, W("name") :> W("fromEnv")}}

DirArgs == {Undef, Str(<<>>), Str(W("/missing")), Str(ConfigDir), Str(OtherDir)}

LoggerArgs == {Undef, Logger(1)}

ConfigNames == {W("all"), W("local"), W("prod")}

DefaultConfigs == {Str(W("local"))}

\* the last one is the call the README shows: the path as only argument
PathArgs ==
    {<<Str(W("all")), Str(AllJsonPath)>>,
     <<Str(W("prod")), Str(W("/missing.json"))>>,
     <<Str(LocalJsonPath), Undef>>}

DelimiterArgs ==
    {Undef, Null, Str(<<>>), Num(1), Arr(<<W(".")>>), Str(W(".")), Str(W(":"))}

\* the keys the program asks for; '.' is the default delimiter
GetArgs ==
    {<<>>,
     <<W("name")>>,
     <<<<"serverSettings", ".", "port">>>>,
     <<W("serverSettings"), W("port")>>,
     <<W("missing"), W("port")>>}

KeyAlphabet == {"a", ".", ":"}

RawKeys == SeqsUpTo(KeyAlphabet, MaxKeyLen)

KeyDelimiters == SeqsUpTo({".", ":"}, MaxDelimLen) \ {<<>>}

-----------------------------------------------------------------------------
(* The state machine *)

Called(op, args, o) ==
    [op |-> op, args |-> args, threw |-> o.threw, ret |-> o.ret,
     configName |-> o.configName, log |-> o.log]

NoOutcome == Outcome(FALSE, <<>>, Undef, Undef, NoLog)

\* cleanKey has not been called
NotCalled == [t |-> "none"]

NoKey ==
    /\ kRaw = <<>>
    /\ kDelim = W(".")
    /\ kOut = NotCalled

Init ==
    /\ instance = NoInstance
    /\ firstCall = NoCall
    /\ stores = <<>>
    /\ procEnv \in EnvChoices
    /\ procArgv \in SeqsUpTo(ArgTokens, MaxArgs)
    /\ fs \in {FsWithLocal, FsWithoutLocal}
    /\ last = Called("start", <<>>, NoOutcome)
    /\ NoKey

\* module.exports(configJsonDirectory, logger)
Factory(configJsonDirectory, logger) ==
    /\ IF ~instance.created
       THEN LET c == ServerConfig(configJsonDirectory, logger)
            IN  /\ instance' = c.self
                /\ stores' = c.stores
                /\ firstCall' = [configJsonDirectory |-> configJsonDirectory, logger |-> logger]
                /\ last' = Called("factory", <<>>, Outcome(FALSE, <<>>, Undef, Undef, c.log))
       ELSE /\ UNCHANGED <<instance, stores, firstCall>>
            /\ last' = Called("factory", <<>>, NoOutcome)
    /\ UNCHANGED <<procEnv, procArgv, fs, keyVars>>

\* a call that changes at most the stores
StoreCall(op, args, o) ==
    /\ instance.created
    /\ stores' = o.stores
    /\ last' = Called(op, args, o)
    /\ UNCHANGED <<instance, firstCall, procEnv, procArgv, fs, keyVars>>

SetEnvironmentName(defaultConfig) ==
    StoreCall("setEnvironmentName", <<defaultConfig>>,
              setEnvironmentName(instance, defaultConfig))

LoadEnvironmentVariables ==
    StoreCall("loadEnvironmentVariables", <<>>, loadEnvironmentVariables(instance))

LoadConfig(configName) ==
    StoreCall("loadConfig", <<Str(configName)>>, loadConfig(instance, configName))

LoadConfigWithPath(configName, filePath) ==
    StoreCall("loadConfigWithPath", <<configName, filePath>>,
              loadConfigWithPath(instance, configName, filePath))

LoadEnvironmentConfig(defaultConfig) ==
    StoreCall("loadEnvironmentConfig", <<defaultConfig>>,
              loadEnvironmentConfig(instance, defaultConfig))

SetDelimiter(delimiter) ==
    /\ instance.created
    /\ LET r == setDelimiter(instance, delimiter)
       IN  /\ instance' = r.self
           /\ last' = Called("setDelimiter", <<delimiter>>,
                             Outcome(FALSE, <<>>, Undef, Undef, r.log))
    /\ UNCHANGED <<firstCall, stores, procEnv, procArgv, fs, keyVars>>

Get(keys) ==
    /\ instance.created
    /\ LET r == get(instance, stores, keys)
       IN  last' = Called("get", [i \in 1..Len(keys) |-> Str(keys[i])],
                          Outcome(r.threw, <<>>, r.ret, Undef, NoLog))
    /\ UNCHANGED <<instance, firstCall, stores, procEnv, procArgv, fs, keyVars>>

GetEnvironmentName ==
    /\ instance.created
    /\ LET r == getEnvironmentName(instance, stores)
       IN  last' = Called("getEnvironmentName", <<>>,
                          Outcome(r.threw, <<>>, r.ret, Undef, NoLog))
    /\ UNCHANGED <<instance, firstCall, stores, procEnv, procArgv, fs, keyVars>>

\* the program assigns or deletes process.env.name
SetEnv ==
    /\ procEnv' \in {e \in EnvChoices :
                        /\ e # procEnv
                        /\ \A k \in (DOMAIN e \cup DOMAIN procEnv) \ {W("name")} :
                              /\ k \in DOMAIN e
                              /\ k \in DOMAIN procEnv
                              /\ e[k] = procEnv[k]}
    /\ last' = Called("setEnv", <<>>, NoOutcome)
    /\ UNCHANGED <<instance, firstCall, stores, procArgv, fs, keyVars>>

\* local.json is created or deleted
FsChange ==
    /\ fs' = IF fs = FsWithLocal THEN FsWithoutLocal ELSE FsWithLocal
    /\ last' = Called("fsChange", <<>>, NoOutcome)
    /\ UNCHANGED <<instance, firstCall, stores, procEnv, procArgv, keyVars>>

\* the calls of a program, their arguments drawn from the given sets
Calls(dirs, loggers, names, paths, delims, keys) ==
    \/ \E d \in dirs, l \in loggers : Factory(d, l)
    \/ \E d \in DefaultConfigs : SetEnvironmentName(d)
    \/ LoadEnvironmentVariables
    \/ \E n \in names : LoadConfig(n)
    \/ \E a \in paths : LoadConfigWithPath(a[1], a[2])
    \/ \E d \in DefaultConfigs : LoadEnvironmentConfig(d)
    \/ \E d \in delims : SetDelimiter(d)
    \/ \E k \in keys : Get(k)
    \/ GetEnvironmentName

\* A program that names its config directory, in a changing environment
Next ==
    \/ Calls({Str(ConfigDir)}, {Undef}, ConfigNames, PathArgs,
             {Str(W(":")), Str(W("."))}, GetArgs)
    \/ SetEnv
    \/ FsChange

Spec == Init /\ [][Next]_vars

\* The same program when it only loads files and reads keys
NextLoads ==
    \/ Factory(Str(ConfigDir), Undef)
    \/ \E n \in ConfigNames : LoadConfig(n)
    \/ \E a \in PathArgs : LoadConfigWithPath(a[1], a[2])
    \/ \E d \in DefaultConfigs : LoadEnvironmentConfig(d)
    \/ \E d \in {Str(W(":")), Str(W("."))} : SetDelimiter(d)
    \/ \E k \in GetArgs : Get(k)
    \/ SetEnv
    \/ FsChange

SpecLoads == Init /\ [][NextLoads]_vars

\* Any first call of the factory, any delimiter, in a fixed environment
InitConstruct ==
    /\ instance = NoInstance
    /\ firstCall = NoCall
    /\ stores = <<>>
    /\ procEnv = EmptyMap
    /\ procArgv = <<>>
    /\ fs = FsWithLocal
    /\ last = Called("start", <<>>, NoOutcome)
    /\ NoKey

NextConstruct ==
    Calls(DirArgs, LoggerArgs, {W("all"), W("prod")}, PathArgs, DelimiterArgs, GetArgs)

SpecConstruct == InitConstruct /\ [][NextConstruct]_vars

\* A program one of whose config files is overrides.json
InitNames ==
    /\ instance = NoInstance
    /\ firstCall = NoCall
    /\ stores = <<>>
    /\ procEnv \in {EmptyMap, W("NODE_ENV") :> W("prod")}
    /\ procArgv = <<>>
    /\ fs = FsWithOverrides
    /\ last = Called("start", <<>>, NoOutcome)
    /\ NoKey

NextNames ==
    \/ Factory(Str(ConfigDir), Undef)
    \/ \E n \in {W("all"), W("local"), W("overrides")} : LoadConfig(n)
    \/ \E d \in DefaultConfigs : LoadEnvironmentConfig(d)
    \/ \E k \in {<<W("name")>>, <<W("region")>>} : Get(k)

SpecNames == InitNames /\ [][NextNames]_vars

\* A program that loads files and reads keys, started with at most one option
InitFiles ==
    /\ instance = NoInstance
    /\ firstCall = NoCall
    /\ stores = <<>>
    /\ procEnv \in {EmptyMap, W("NODE_ENV") :> W("prod")}
    /\ procArgv \in {<<>>, <<<<"--", "name", "=", "cli">>>>}
    /\ fs = FsWithLocal
    /\ last = Called("start", <<>>, NoOutcome)
    /\ NoKey

SpecFiles == InitFiles /\ [][NextLoads]_vars

\* A program that sets the environment name and loads, while it changes
\* process.env
InitReload ==
    /\ instance = NoInstance
    /\ firstCall = NoCall
    /\ stores = <<>>
    /\ procEnv \in EnvChoices
    /\ procArgv \in {<<>>, <<<<"--", "name", "=", "cli">>>>}
    /\ fs = FsWithLocal
    /\ last = Called("start", <<>>, NoOutcome)
    /\ NoKey

NextReload ==
    \/ Factory(Str(ConfigDir), Undef)
    \/ \E d \in DefaultConfigs : SetEnvironmentName(d)
    \/ LoadEnvironmentVariables
    \/ \E n \in {W("all"), W("prod")} : LoadConfig(n)
    \/ \E a \in PathArgs : LoadConfigWithPath(a[1], a[2])
    \/ \E d \in DefaultConfigs : LoadEnvironmentConfig(d)
    \/ SetEnv

SpecReload == InitReload /\ [][NextReload]_vars

\* cleanKey on its own
InitKey ==
    /\ instance = NoInstance
    /\ firstCall = NoCall
    /\ stores = <<>>
    /\ procEnv = EmptyMap
    /\ procArgv = <<>>
    /\ fs = FsWithLocal
    /\ last = Called("start", <<>>, NoOutcome)
    /\ kRaw \in RawKeys
    /\ kDelim \in KeyDelimiters
    /\ kOut = NotCalled

\* kOut = cleanKey(kRaw, kDelim)
CleanKey ==
    /\ kOut = NotCalled
    /\ kOut' = cleanKey(kRaw, kDelim)
    /\ UNCHANGED <<kRaw, kDelim, sessionVars>>

\* the key returned is given to cleanKey again
CleanKeyAgain ==
    /\ IsString(kOut)
    /\ kOut.s # kRaw
    /\ kRaw' = kOut.s
    /\ kOut' = cleanKey(kOut.s, kDelim)
    /\ UNCHANGED <<kDelim, sessionVars>>

NextKey == CleanKey \/ CleanKeyAgain

SpecKey == InitKey /\ [][NextKey]_vars

-----------------------------------------------------------------------------
(* Properties *)

ValidSession == instance.created /\ instance.nconf

InvalidSession == instance.created /\ ~instance.nconf

FileStores == {i \in 1..Len(stores) : stores[i].type = "file"}

FileKeys == UNION {DOMAIN stores[i].store : i \in FileStores}

Defining(k) == {i \in 1..Len(stores) : k \in DOMAIN stores[i].store}

\* the last call was a load that returned after it read argv and env again
Reloaded ==
    /\ ~last.threw
    /\ \/ last.op \in {"loadConfig", "loadEnvironmentConfig"}
       \/ last.op = "loadConfigWithPath" /\ last.log[1].level = "info"

GetOne(k) == get(instance, stores, <<k>>)

\* v is what a loaded file gives k: a file's value for k, or a mapping whose
\* every entry is an entry of a file's mapping for k
FromLoadedFile(k, v) ==
    \/ \E i \in FileStores : k \in DOMAIN stores[i].store /\ v = stores[i].store[k]
    \/ /\ IsObject(v)
       /\ \A j \in DOMAIN v.m :
            \E i \in FileStores :
                /\ k \in DOMAIN stores[i].store
                /\ IsObject(stores[i].store[k])
                /\ j \in DOMAIN stores[i].store[k].m
                /\ v.m[j] = stores[i].store[k].m[j]

C2_GetNeverThrows ==
    (last.op = "get" /\ Len(last.args) >= 2) => ~last.threw

\* C3, as claimed: loadConfig of a name whose file does not exist returns
\* without throwing.
C3_MissingFileIsQuiet ==
    (/\ ValidSession
     /\ last.op = "loadConfig"
     /\ PathJoin(instance.configDirectory.s, getConfigFileName(last.args[1].s))
            \notin DOMAIN fs)
        => ~last.threw

\* C4, as claimed: the instance holds the directory and the logger given to
\* the first call of the factory.
C4_FirstCallWins ==
    instance.created =>
        /\ instance.configDirectory = firstCall.configJsonDirectory
        /\ instance.logger = firstCall.logger

\* C5, as claimed: on a session built with an invalid directory no call throws
\* and get returns null.
C5_InvalidSessionIsQuiet ==
    InvalidSession =>
        /\ ~last.threw
        /\ last.op = "get" => last.ret = Null

ValidDelimiter(d) == IsString(d) /\ d.s # <<>>

\* C6: setDelimiter replaces the delimiter by a non-empty string and leaves it
\* as it was for anything else, so the delimiter is never empty.
C6_Delimiter ==
    /\ [](instance.created => instance.delimiter # <<>>)
    /\ [][last'.op = "setDelimiter" =>
            instance'.delimiter = IF ValidDelimiter(last'.args[1])
                                  THEN last'.args[1].s
                                  ELSE instance.delimiter]_vars

\* C6 witness: the delimiter was set to ':' and an empty string was then refused
C6_Witness ==
    /\ last.op = "setDelimiter"
    /\ last.args[1] = Str(<<>>)
    /\ instance.delimiter = W(":")

\* the script and the arguments after it that are not options
Positionals ==
    LET IsPositional(tok) == ~IsOption(tok)
    IN  SelectSeq(Tail(ProcessArgv), IsPositional)

\* C7, as claimed: the name resolved is NODE_ENV when it is set, else the last
\* positional argument when there is more than one, else the default.
C7_ResolvedName ==
    last.op \in {"setEnvironmentName", "loadEnvironmentConfig"} =>
        last.configName =
            IF W("NODE_ENV") \in DOMAIN procEnv /\ procEnv[W("NODE_ENV")] # <<>>
            THEN Str(procEnv[W("NODE_ENV")])
            ELSE IF Len(Positionals) > 1
                 THEN Str(Positionals[Len(Positionals)])
                 ELSE last.args[1]

\* C8, as claimed: once setEnvironmentName or loadEnvironmentConfig has
\* returned, getEnvironmentName returns the name that call resolved.
C8_EnvironmentNameKept ==
    (/\ ValidSession
     /\ last.op \in {"setEnvironmentName", "loadEnvironmentConfig"}
     /\ ~last.threw)
        => getEnvironmentName(instance, stores).ret = last.configName

\* C9, as claimed: loadConfigWithPath(path) with the path of an existing file
\* loads it: every key of the file that env and argv leave alone is defined,
\* and reads as the file gives it unless another source also defines it.
C9_LoadConfigWithPathOneArgument ==
    (/\ ValidSession
     /\ last.op = "loadConfigWithPath"
     /\ last.args[2] = Undef
     /\ IsString(last.args[1])
     /\ last.args[1].s \in DOMAIN fs)
        => \A k \in DOMAIN fs[last.args[1].s] \ (DOMAIN ArgvTree \cup DOMAIN procEnv) :
              \/ GetOne(k).ret = fs[last.args[1].s][k]
              \/ Defining(k) # {} /\ GetOne(k).ret # Undef

\* every leftmost occurrence of d in s replaced by ':'
RECURSIVE ReplaceAll(_, _)
ReplaceAll(s, d) ==
    IF Len(s) < Len(d) THEN s
    ELSE IF SubSeq(s, 1, Len(d)) = d
         THEN W(":") \o ReplaceAll(SubSeq(s, Len(d) + 1, Len(s)), d)
         ELSE <<Head(s)>> \o ReplaceAll(Tail(s), d)

\* C10: cleanKey returns a string: the key with each occurrence of the
\* delimiter replaced by ':', hence the key itself when the delimiter does not
\* occur in it or is ':'.
C10_ResolveKey ==
    kOut # NotCalled =>
        /\ IsString(kOut)
        /\ kOut.s = ReplaceAll(kRaw, kDelim)
        /\ (\A i \in 1..(Len(kRaw) - Len(kDelim) + 1) :
                SubSeq(kRaw, i, i + Len(kDelim) - 1) # kDelim)
              => kOut.s = kRaw
        /\ kDelim = W(":") => kOut.s = kRaw

\* C10 witness: a key in which the delimiter '.' occurs has been rewritten
C10_Witness ==
    /\ kRaw = <<"a", ".", "a">>
    /\ kDelim = W(".")
    /\ kOut = Str(<<"a", ":", "a">>)

\* the name under which the load that just returned registered its file
LoadedName ==
    IF last.op = "loadConfig" THEN last.args[1].s ELSE last.configName.s

\* C11, as claimed: a load that returns leaves every file source registered
\* under another name in its place with its contents, and a key that only such
\* a source defines still reads as that source gives it.
C11_DistinctNamesCoexist ==
    [][(/\ ValidSession
        /\ last'.op \in {"loadConfig", "loadEnvironmentConfig"}
        /\ ~last'.threw)
          => \A i \in FileStores :
                stores[i].name # LoadedName'
                  => /\ stores'[i] = stores[i]
                     /\ \A k \in DOMAIN stores[i].store :
                          Defining(k)' = {i} => GetOne(k)'.ret = stores[i].store[k]]_vars

\* the sources in which the ':'-separated path key leads to a value
Holding(key) == {i \in 1..Len(stores) : MemoryGet(stores[i].store, key) # Undef}

HeldBy(i, key) == MemoryGet(stores[i].store, key)

\* what the sources give for key: nothing when none holds it, the value of the
\* first-registered source that holds it when that is a scalar, and otherwise
\* the union of the mappings registered before the first scalar, each entry
\* taken from the first-registered mapping that has it (the entries of the
\* mappings modelled are scalars)
Found(key) ==
    IF Holding(key) = {} THEN Undef
    ELSE LET v == HeldBy(Min(Holding(key)), key)
             scalars == {i \in Holding(key) : ~IsObject(HeldBy(i, key))}
             maps == {i \in Holding(key) \ scalars : \A h \in scalars : i < h}
             has(j) == {i \in maps : j \in DOMAIN HeldBy(i, key).m}
         IN  IF ~IsObject(v) THEN v
             ELSE Obj([j \in UNION {DOMAIN HeldBy(i, key).m : i \in maps} |->
                          HeldBy(Min(has(j)), key).m[j]])

\* v[k2]...[kn], each key with the delimiter replaced by ':'; undefined from
\* the first key on that v does not have
RECURSIVE Inside(_, _)
Inside(v, keys) ==
    IF keys = <<>> THEN v
    ELSE LET k == ReplaceAll(Head(keys).s, instance.delimiter)
         IN  Inside(IF IsObject(v) /\ k \in DOMAIN v.m THEN v.m[k] ELSE Undef,
                    Tail(keys))

\* no value on the way from v down to the one before the last key is undefined
DefinedUpTo(v, keys) ==
    \A n \in 0..(Len(keys) - 1) : Inside(v, SubSeq(keys, 1, n)) # Undef

GetOfKeys == ValidSession /\ last.op = "get" /\ Len(last.args) >= 2

Registered(name, type, tree) ==
    \E i \in 1..Len(stores) :
        /\ stores[i].name = name
        /\ stores[i].type = type
        /\ stores[i].store = tree

\* the argv and env sources are what the process gives now
Fresh ==
    /\ Registered(W("argv"), "argv", ArgvTree)
    /\ Registered(W("env"), "env", EnvTree)

OverrideRecorded ==
    \E i \in 1..Len(stores) :
        /\ stores[i].type = "literal"
        /\ stores[i].store[W("environmentName")] = last.configName

\* a load that registered its file has returned
FileRegistered ==
    /\ ValidSession /\ ~last.threw
    /\ \/ last.op = "loadConfig"
       \/ last.op = "loadConfigWithPath" /\ last.log[1].level = "info"
    /\ Registered(last.args[1].s, "file", fs[IF last.op = "loadConfig"
                                             THEN PathJoin(instance.configDirectory.s,
                                                           getConfigFileName(last.args[1].s))
                                             ELSE last.args[2].s])

\* a call that resolves the environment name has returned
NameResolved(op) == ValidSession /\ ~last.threw /\ last.op = op

\* C13, as claimed: when loadConfig, a successful loadConfigWithPath,
\* loadEnvironmentConfig or setEnvironmentName returns, the argv and env
\* sources are what the process gives at that moment.
C13_ReloadIsLast ==
    (\/ FileRegistered
     \/ NameResolved("loadEnvironmentConfig")
     \/ NameResolved("setEnvironmentName"))
        => Fresh

\* C13, amended: when loadConfig, a successful loadConfigWithPath or
\* loadEnvironmentConfig returns, the file is registered, the name is recorded,
\* and the argv and env sources are what the process gives at that moment;
\* setEnvironmentName records the name and leaves the argv and env sources as
\* they were.
C13_ReloadAfterLoad ==
    /\ [](FileRegistered => Fresh)
    /\ [](NameResolved("loadEnvironmentConfig") => OverrideRecorded /\ Fresh)
    /\ [](NameResolved("setEnvironmentName") => OverrideRecorded)
    /\ [][(ValidSession /\ last'.op = "setEnvironmentName")
            => \A i \in 1..Len(stores) :
                  stores[i].type \in {"argv", "env"} => stores'[i] = stores[i]]_vars

\* C13 witness: setEnvironmentName returned after a file was loaded and
\* process.env changed, and the env source is still the one of the load
C13_Witness ==
    /\ NameResolved("setEnvironmentName")
    /\ OverrideRecorded
    /\ FileStores # {}
    /\ Registered(W("argv"), "argv", ArgvTree)
    /\ ~Registered(W("env"), "env", EnvTree)

\* the file sources that define k, and whether no other source does
FilesDefining(k) == Defining(k) \cap FileStores

OnlyFilesDefine(k) == Defining(k) \subseteq FileStores

FirstFile(k) == stores[Min(FilesDefining(k))].store[k]

====
